---- MODULE Spec2Model ----
(***************************************************************************)
(* Audio analysis core of spotify_rgb (src/src/audio_spotify_only.py):     *)
(* AGC, DynamicsCompressor, AdaptiveSmoother, DynamicFloor and the         *)
(* AudioReactiveSpotifyOnly object (snapshot, frame loop, start/stop).     *)
(*                                                                         *)
(* Numbers.  The code computes in Python floats.  The model computes in    *)
(* fixed point: an integer n stands for n / S, and every arithmetic        *)
(* operation rounds its exact result to the nearest representable value,   *)
(* as a floating-point operation does (only the spacing of the             *)
(* representable values differs).                                          *)
(***************************************************************************)
EXTENDS Integers, Sequences, FiniteSets, TLC

\* ------------------------------------------------------------------------
\* Fixed-point arithmetic
\* ------------------------------------------------------------------------

\* one unit of the fixed-point grid is 1/S
S == 10000

Min2(a, b) == IF a <= b THEN a ELSE b

Max2(a, b) == IF a >= b THEN a ELSE b

\* a / b rounded to the nearest integer (b > 0), halves away from zero
RoundDiv(a, b) == IF a >= 0 THEN (2 * a + b) \div (2 * b) ELSE -((2 * (-a) + b) \div (2 * b))

\* float multiplication x * y
Mul(x, y) == RoundDiv(x * y, S)

\* float division x / y
Div(x, y) == RoundDiv(x * S, y)

RECURSIVE SeqSum(_)
SeqSum(s) == IF s = <<>> THEN 0 ELSE Head(s) + SeqSum(Tail(s))

\* ------------------------------------------------------------------------
\* Bounds of the model
\* ------------------------------------------------------------------------

\* AGC.process calls explored (more than the history window, so that the
\* bounded history evicts)
AgcMaxCalls == 104

\* how often the energy fed to AGC.process may change its level
AgcMaxSwitches == 1

\* AdaptiveSmoother.update calls explored
SmMaxCalls == 4

\* DynamicFloor.get_floor / apply calls explored
FloorMaxCalls == 4

\* loop iterations explored where a specification bounds them
MaxFrames == 3

\* largest clock value explored
MaxTime == 8

\* frames that are not silent fed before the silence
MaxLoudFrames == 1

\* threads created by start() over the life of the object
MaxThreads == 2

\* read failures counted per thread
MaxReadFails == 2

\* AGC.process calls explored with one constant energy
AgcConstMaxCalls == 200

\* ------------------------------------------------------------------------
\* State
\* ------------------------------------------------------------------------
VARIABLES
    agc_gain,       \* AGC.gain
    agc_hist,       \* AGC._energy_hist (deque, maxlen 100)
    agc_out,        \* value returned by the last AGC.process call
    agc_calls,      \* number of AGC.process calls made
    agc_last,       \* energy passed to the last AGC.process call
    agc_switches,   \* number of level changes of the energy fed so far
    comp_a,         \* first compressor input
    comp_b,         \* second compressor input
    comp_ra,        \* DynamicsCompressor.process(comp_a), -1 before the call
    comp_rb,        \* DynamicsCompressor.process(comp_b), -1 before the call
    adaptive,       \* AdaptiveSmoother.adaptive (config.ADAPTIVE_SMOOTHING)
    sm_perc,        \* _smoother_perc.value
    sm_bass,        \* _smoother_bass.value
    sm_mel,         \* _smoother_mel.value
    sm_call,        \* last AdaptiveSmoother.update call: [prev, target, volume, ret]
    sm_calls,       \* number of AdaptiveSmoother.update calls made
    floor_cur,      \* DynamicFloor._current_floor
    floor_call,     \* last DynamicFloor call: [op, value, volume, before, ret]
    floor_low,      \* some DynamicFloor call so far had volume < thresh
    floor_calls,    \* number of DynamicFloor calls made
    mode,           \* AudioReactiveSpotifyOnly._mode (config.DETECTION_MODE)
    spotify_ok,     \* _loop: spotify_ok, the result of self._spotify.init()
    st,             \* _state
    intensity,      \* _intensity
    pub_volume,     \* _volume
    vnorm,          \* _vnorm
    pub_energy,     \* _energy
    flux,           \* _spectral_flux
    beat,           \* _beat_intensity
    bass,           \* _bass
    melody,         \* _melody
    percussion,     \* _percussion
    last_hit,       \* _last_hit
    l_beat,         \* _loop: beat_intensity
    vol_smooth,     \* _loop: vol_smooth
    vnorm_smooth,   \* _loop: vnorm_smooth
    energy_smooth,  \* _loop: energy_smooth
    flux_smooth,    \* _loop: flux_smooth
    rms_hist,       \* _loop: rms_hist (deque, maxlen 200)
    clock,          \* time.perf_counter(), in units of 0.06 s
    frames,         \* number of loop iterations counted against MaxFrames
    last_frame,     \* the last loop iteration: [kind, det, det_i, now, fired]
    set_at,         \* the last assignment of _state by the loop: [state, t]
    rd,             \* the last read of the state accessor: [ret, t]
    c_reads,        \* versions seen by the reads of the render step under way
    running,        \* _running
    self_thread,    \* _thread: the thread created by the last start(), 0 for None
    thr,            \* the status of every thread created so far
    res,            \* per thread: it holds the audio stream and session handles
    cpc,            \* where the caller of start() / stop() is
    ev,             \* the last start/stop/thread step: [op, thread, ret, found, n0]
    tlog,           \* per thread: [why it left the loop, read failures so far]
    bw_pc,          \* _loop, lines 545-596: where the construction of the weights is
    bw_sr,          \* _loop: sr = dev["rate"], 0 before a device is opened
    bw_bin,         \* _loop: i, the bin the construction has reached
    w_perc,         \* _loop: w_perc, in units of 0.001
    w_bass,         \* _loop: w_bass, in units of 0.001
    w_mel,          \* _loop: w_mel, in units of 0.001
    w_n_sum,        \* sums of w_perc_n, w_bass_n, w_mel_n, in units of 1e-9
    apc,            \* where the audio thread is in its iteration: "read" or "pipeline"
    acc             \* the last accessor read: [field, value, locked, during]

agcVars == <<agc_gain, agc_hist, agc_out, agc_calls, agc_last, agc_switches>>

compVars == <<comp_a, comp_b, comp_ra, comp_rb>>

smVars == <<adaptive, sm_perc, sm_bass, sm_mel, sm_call, sm_calls>>

floorVars == <<floor_cur, floor_call, floor_low, floor_calls>>

snapVars == <<st, intensity, pub_volume, vnorm, pub_energy, flux, beat, bass, melody, percussion, last_hit>>

loopVars == <<mode, spotify_ok, l_beat, vol_smooth, vnorm_smooth, energy_smooth, flux_smooth, rms_hist>>

obsVars == <<frames, last_frame, set_at, rd, c_reads>>

lifeVars == <<running, self_thread, thr, res, cpc, ev, tlog>>

bandVars == <<bw_pc, bw_sr, bw_bin, w_perc, w_bass, w_mel, w_n_sum>>

accVars == <<apc, acc>>

objVars == <<snapVars, loopVars, clock, obsVars, lifeVars, bandVars, accVars>>

vars == <<agcVars, compVars, smVars, floorVars, objVars>>

\* ------------------------------------------------------------------------
\* AGC (config.py defaults)
\* ------------------------------------------------------------------------
AGC_MAX_GAIN == 35000

AGC_MIN_GAIN == 8000

AGC_ATTACK == 300

AGC_RELEASE == 100

AGC_TARGET == 3500

\* deque(maxlen=100)
AGC_HIST_MAXLEN == 100

\* warm-up: fewer than 10 samples pass through
AGC_WARMUP == 10

\* avg_energy > 0.001
AGC_EPS == 10

\* deque.append on a bounded deque: the oldest sample is dropped when full
DequeAppend(q, x, maxlen) == IF Len(q) < maxlen THEN Append(q, x) ELSE Append(Tail(q), x)

\* np.mean
Mean(q) == RoundDiv(SeqSum(q), Len(q))

\* mutation: the lower clamp is missing
IdealGainNoMinClamp(avg) == Min2(AGC_MAX_GAIN, IF avg > AGC_EPS THEN Div(AGC_TARGET, avg) ELSE AGC_MAX_GAIN)

\* ideal gain for an average energy, clamped to [min_gain, max_gain]
IdealGain(avg) == Max2(AGC_MIN_GAIN, Min2(AGC_MAX_GAIN, IF avg > AGC_EPS THEN Div(AGC_TARGET, avg) ELSE AGC_MAX_GAIN))

\* mutation: the gain falls as slowly as it rises
AgcStepSymmetric(gain, ideal) == gain + Mul(ideal - gain, AGC_RELEASE)

\* asymmetric move of the gain towards the ideal gain
AgcStep(gain, ideal) == IF ideal > gain THEN gain + Mul(ideal - gain, AGC_RELEASE) ELSE gain + Mul(ideal - gain, AGC_ATTACK)

\* AGC.process(energy) with AGC enabled: the new gain, history and result
AGC_process(gain, hist, energy) ==
    LET h == DequeAppend(hist, energy, AGC_HIST_MAXLEN)
    IN  IF Len(h) < AGC_WARMUP
        THEN [gain |-> gain, hist |-> h, out |-> energy]
        ELSE LET g == AgcStep(gain, IdealGain(Mean(h)))
             IN  [gain |-> g, hist |-> h, out |-> Mul(energy, g)]

\* AGC.__init__
InitAGC ==
    /\ agc_gain = S
    /\ agc_hist = <<>>
    /\ agc_out = 0
    /\ agc_calls = 0
    /\ agc_last = -1
    /\ agc_switches = 0

\* energies fed to AGC.process
AgcEnergies == {0, 500, 2000, 10000}

\* one call AGC.process(energy)
AgcCall(energy) ==
    /\ agc_calls < AgcMaxCalls
    /\ \/ agc_last = -1 /\ agc_switches' = agc_switches
       \/ agc_last = energy /\ agc_switches' = agc_switches
       \/ agc_last # -1 /\ agc_last # energy /\ agc_switches < AgcMaxSwitches
          /\ agc_switches' = agc_switches + 1
    /\ LET r == AGC_process(agc_gain, agc_hist, energy)
       IN  /\ agc_gain' = r.gain
           /\ agc_hist' = r.hist
           /\ agc_out' = r.out
    /\ agc_calls' = agc_calls + 1
    /\ agc_last' = energy
    /\ UNCHANGED <<compVars, smVars, floorVars, objVars>>

NextAGC == \E e \in AgcEnergies : AgcCall(e)

\* constant energies fed to a fresh AGC, from 0.002 to 1.0
AgcConstEnergies == {20, 500, 900, 1000, 1500, 2000, 3000, 3500, 4000, 4400, 4900, 5000, 6000, 10000}

\* one call AGC.process(energy), the energy being that of every call before
AgcConstCall(energy) ==
    /\ agc_calls < AgcConstMaxCalls
    /\ agc_last \in {-1, energy}
    /\ LET r == AGC_process(agc_gain, agc_hist, energy)
       IN  /\ agc_gain' = r.gain
           /\ agc_hist' = r.hist
           /\ agc_out' = r.out
    /\ agc_calls' = agc_calls + 1
    /\ agc_last' = energy
    /\ UNCHANGED <<agc_switches, compVars, smVars, floorVars, objVars>>

NextAgcConst == \E e \in AgcConstEnergies : AgcConstCall(e)

\* ------------------------------------------------------------------------
\* DynamicsCompressor (config.py defaults)
\* ------------------------------------------------------------------------
COMPRESSOR_THRESHOLD == 2500

COMPRESSOR_RATIO == 25000

COMPRESSOR_KNEE == 1500

COMPRESSOR_MAKEUP == 14000

\* mutation: no makeup gain below the knee
CompressNoMakeupBelowKnee(value) ==
    IF value <= 0 THEN value
    ELSE IF value < COMPRESSOR_THRESHOLD - COMPRESSOR_KNEE THEN value
    ELSE Min2(S, Mul(COMPRESSOR_THRESHOLD + Div(value - COMPRESSOR_THRESHOLD, COMPRESSOR_RATIO), COMPRESSOR_MAKEUP))

\* DynamicsCompressor.process(value) with the compressor enabled
Compress(value) ==
    IF value <= 0 THEN value
    ELSE LET knee_start == COMPRESSOR_THRESHOLD - COMPRESSOR_KNEE
             knee_end == COMPRESSOR_THRESHOLD + COMPRESSOR_KNEE
             knee_range == knee_end - knee_start
             knee_pos == Div(value - knee_start, knee_range)
             effective_ratio == S + Mul(COMPRESSOR_RATIO - S, Mul(knee_pos, knee_pos))
             compressed ==
                 IF value < knee_start THEN value
                 ELSE IF value > knee_end
                      THEN COMPRESSOR_THRESHOLD + Div(value - COMPRESSOR_THRESHOLD, COMPRESSOR_RATIO)
                      ELSE knee_start + Div(value - knee_start, effective_ratio)
         IN  Min2(S, Mul(compressed, COMPRESSOR_MAKEUP))

\* the three regions of process(), each with its own formula for compressed
\* below the knee (line 229)
RegionBelow(value) == value

\* inside the knee (lines 239-246)
RegionKnee(value) ==
    LET knee_start == COMPRESSOR_THRESHOLD - COMPRESSOR_KNEE
        knee_end == COMPRESSOR_THRESHOLD + COMPRESSOR_KNEE
        knee_pos == Div(value - knee_start, knee_end - knee_start)
        effective_ratio == S + Mul(COMPRESSOR_RATIO - S, Mul(knee_pos, knee_pos))
    IN  knee_start + Div(value - knee_start, effective_ratio)

\* above the knee (lines 233-234)
RegionAbove(value) == COMPRESSOR_THRESHOLD + Div(value - COMPRESSOR_THRESHOLD, COMPRESSOR_RATIO)

\* makeup gain and the cap at 1.0 (lines 250-253)
MakeupOut(compressed) == Min2(S, Mul(compressed, COMPRESSOR_MAKEUP))

\* compressor inputs: 0.00, 0.01, ... 1.20
CompGrid == 100

CompInputs == {CompGrid * i : i \in 0..120}

\* the inputs of the two calls are drawn, no call made yet
InitComp ==
    /\ comp_a \in CompInputs
    /\ comp_b \in CompInputs
    /\ comp_a <= comp_b
    /\ comp_ra = -1
    /\ comp_rb = -1

\* the compressor object before use (other specifications)
IdleComp ==
    /\ comp_a = 0
    /\ comp_b = 0
    /\ comp_ra = -1
    /\ comp_rb = -1

\* process(comp_a) then process(comp_b)
CompCall ==
    /\ comp_ra = -1
    /\ comp_ra' = Compress(comp_a)
    /\ comp_rb' = Compress(comp_b)
    /\ UNCHANGED <<comp_a, comp_b, agcVars, smVars, floorVars, objVars>>

NextComp == CompCall

\* ------------------------------------------------------------------------
\* AdaptiveSmoother (config.py defaults)
\* ------------------------------------------------------------------------
BAND_ATTACK == 4500

BAND_DECAY == 800

SMOOTHING_LOW_VOL_MULT == 25000

SMOOTHING_LOW_VOL_THRESH == 3500

\* mutation: the decay multiplier is used as the decay rate
SmDecayIsMultiplier(adapt, volume) ==
    IF adapt /\ volume < SMOOTHING_LOW_VOL_THRESH
    THEN S + Mul(SMOOTHING_LOW_VOL_MULT - S, S - Div(volume, SMOOTHING_LOW_VOL_THRESH))
    ELSE BAND_DECAY

\* the decay rate of one update: slower at low volume in adaptive mode
SmDecay(adapt, volume) ==
    IF adapt /\ volume < SMOOTHING_LOW_VOL_THRESH
    THEN LET vol_factor == Div(volume, SMOOTHING_LOW_VOL_THRESH)
             decay_mult == S + Mul(SMOOTHING_LOW_VOL_MULT - S, S - vol_factor)
         IN  Div(BAND_DECAY, decay_mult)
    ELSE BAND_DECAY

\* AdaptiveSmoother.update(target, volume): the new stored (and returned) value
Smooth(value, adapt, target, volume) ==
    IF target > value
    THEN value + Mul(target - value, BAND_ATTACK)
    ELSE value + Mul(target - value, SmDecay(adapt, volume))

NoSmCall == [prev |-> 0, target |-> 0, volume |-> 0, ret |-> -1]

\* AdaptiveSmoother.__init__ for the three smoothers
InitSmoothers ==
    /\ adaptive \in BOOLEAN
    /\ sm_perc = 0
    /\ sm_bass = 0
    /\ sm_mel = 0
    /\ sm_call = NoSmCall
    /\ sm_calls = 0

SmTargets == {0, 2000, 6000, 10000}

SmVolumes == {0, 1000, 3500, 10000}

\* one call _smoother_perc.update(target, volume)
SmUpdate(target, volume) ==
    /\ sm_calls < SmMaxCalls
    /\ sm_perc' = Smooth(sm_perc, adaptive, target, volume)
    /\ sm_call' = [prev |-> sm_perc, target |-> target, volume |-> volume, ret |-> sm_perc']
    /\ sm_calls' = sm_calls + 1
    /\ UNCHANGED <<adaptive, sm_bass, sm_mel, agcVars, compVars, floorVars, objVars>>

NextSmooth == \E t \in SmTargets, v \in SmVolumes : SmUpdate(t, v)

\* ------------------------------------------------------------------------
\* DynamicFloor (config.py defaults)
\* ------------------------------------------------------------------------
DYNAMIC_FLOOR_MAX == 1500

DYNAMIC_FLOOR_THRESH == 3000

\* smoothing rate of the floor
FLOOR_RATE == 1000

\* blend weight of the floor
FLOOR_BLEND == 7000

\* mutation: the volume test is inverted
TargetFloorInverted(volume) ==
    IF volume < DYNAMIC_FLOOR_THRESH THEN 0
    ELSE DYNAMIC_FLOOR_MAX

\* target floor for a volume: 0 at or above thresh, linear below
TargetFloor(volume) ==
    IF volume >= DYNAMIC_FLOOR_THRESH THEN 0
    ELSE Mul(DYNAMIC_FLOOR_MAX, S - Div(volume, DYNAMIC_FLOOR_THRESH))

\* mutation: the target is added to the floor
GetFloorAccumulates(cur, volume) == cur + TargetFloor(volume)

\* DynamicFloor.get_floor(volume) with the floor enabled: the new
\* _current_floor, which is also the value returned
GetFloor(cur, volume) == cur + Mul(TargetFloor(volume) - cur, FLOOR_RATE)

\* the value DynamicFloor.apply returns for a floor already computed
ApplyFloor(value, floor) ==
    IF value < floor THEN Mul(floor, FLOOR_BLEND) + Mul(value, S - FLOOR_BLEND)
    ELSE value

NoFloorCall == [op |-> "none", value |-> 0, volume |-> 0, before |-> 0, ret |-> -1]

\* DynamicFloor.__init__
InitFloor ==
    /\ floor_cur = 0
    /\ floor_call = NoFloorCall
    /\ floor_low = FALSE
    /\ floor_calls = 0

FloorValues == {0, 500, 5000}

FloorVolumes == {0, 1500, 3000, 10000}

\* one call DynamicFloor.get_floor(volume)
FloorGet(volume) ==
    /\ floor_calls < FloorMaxCalls
    /\ floor_cur' = GetFloor(floor_cur, volume)
    /\ floor_call' = [op |-> "get_floor", value |-> 0, volume |-> volume,
                      before |-> floor_cur, ret |-> floor_cur']
    /\ floor_low' = (floor_low \/ volume < DYNAMIC_FLOOR_THRESH)
    /\ floor_calls' = floor_calls + 1
    /\ UNCHANGED <<agcVars, compVars, smVars, objVars>>

\* one call DynamicFloor.apply(value, volume)
FloorApply(value, volume) ==
    /\ floor_calls < FloorMaxCalls
    /\ floor_cur' = GetFloor(floor_cur, volume)
    /\ floor_call' = [op |-> "apply", value |-> value, volume |-> volume,
                      before |-> floor_cur, ret |-> ApplyFloor(value, floor_cur')]
    /\ floor_low' = (floor_low \/ volume < DYNAMIC_FLOOR_THRESH)
    /\ floor_calls' = floor_calls + 1
    /\ UNCHANGED <<agcVars, compVars, smVars, objVars>>

NextFloor ==
    \/ \E v \in FloorVolumes : FloorGet(v)
    \/ \E x \in FloorValues, v \in FloorVolumes : FloorApply(x, v)

\* ------------------------------------------------------------------------
\* AudioReactiveSpotifyOnly: snapshot, accessors and the frame loop
\* ------------------------------------------------------------------------

\* hold_time = config.HIT_HOLD_TIME = 0.18 s, in clock units of 0.06 s
HIT_HOLD_TIME == 3

\* config.PEAK_HOLD_TIME = 0.12 s, in clock units of 0.06 s
PEAK_HOLD_TIME == 2

CHASE_FLASH_DECAY == 8500

\* beat_intensity < 0.02 becomes 0.0
BEAT_ZERO_BELOW == 200

\* rms < 0.003 is silence
RMS_SILENCE == 30

\* rms_max > 0.001
RMS_MAX_EPS == 10

\* deque(maxlen=200)
RMS_HIST_MAXLEN == 200

Modes == {"peaks", "drums", "both"}

RECURSIVE SeqMax(_)
SeqMax(s) == IF Len(s) = 1 THEN Head(s) ELSE Max2(Head(s), SeqMax(Tail(s)))

\* no onset detector fired
NoneFired == [peak |-> FALSE, kick |-> FALSE, snare |-> FALSE, peak_i |-> 0]

NoFrame == [kind |-> "none", det |-> "none", det_i |-> 0, now |-> 0, fired |-> NoneFired]

NoRead == [ret |-> "none", t |-> 0]

\* no accessor read yet
NoAccess == [field |-> "none", value |-> 0, locked |-> TRUE, during |-> "read"]

\* the weights are not normalized yet
NoSums == [perc |-> -1, bass |-> -1, mel |-> -1]

\* AudioReactiveSpotifyOnly.__init__ and the locals of _loop before the
\* first iteration
InitObj ==
    /\ mode \in Modes
    /\ spotify_ok \in BOOLEAN
    /\ st = "idle"
    /\ intensity = 0
    /\ pub_volume = 0
    /\ vnorm = 0
    /\ pub_energy = 0
    /\ flux = 0
    /\ beat = 0
    /\ bass = 0
    /\ melody = 0
    /\ percussion = 0
    /\ last_hit = 0
    /\ l_beat = 0
    /\ vol_smooth = 0
    /\ vnorm_smooth = 0
    /\ energy_smooth = 0
    /\ flux_smooth = 0
    /\ rms_hist = <<>>
    /\ clock = 0
    /\ frames = 0
    /\ last_frame = NoFrame
    /\ set_at = [state |-> "idle", t |-> 0]
    /\ rd = NoRead
    /\ c_reads = <<>>
    /\ bw_pc = "idle"
    /\ bw_sr = 0
    /\ bw_bin = 0
    /\ w_perc = <<>>
    /\ w_bass = <<>>
    /\ w_mel = <<>>
    /\ w_n_sum = NoSums
    /\ apc = "read"
    /\ acc = NoAccess

\* what is recorded of a thread: why it left the loop, how many reads failed
NoLog == [why |-> "none", fails |-> 0]

NoEvent == [op |-> "none", thread |-> 0, ret |-> FALSE, found |-> FALSE, n0 |-> 0]

\* __init__: not running, no thread
InitLife ==
    /\ running = FALSE
    /\ self_thread = 0
    /\ thr = <<>>
    /\ res = <<>>
    /\ cpc = "idle"
    /\ ev = NoEvent
    /\ tlog = <<>>

\* after a successful start(): one thread, in its frame loop
InLoop ==
    /\ running = TRUE
    /\ self_thread = 1
    /\ thr = <<"loop">>
    /\ res = <<TRUE>>
    /\ cpc = "idle"
    /\ ev = NoEvent
    /\ tlog = <<NoLog>>

\* the object with the default detection mode, before any frame
IdleObj == InitObj /\ InitLife /\ mode = "peaks" /\ spotify_ok = FALSE

\* the hold that applies to a state
Hold(state) == IF state = "peak" THEN PEAK_HOLD_TIME ELSE HIT_HOLD_TIME

\* the state accessor: _state after the expiry test made under the lock
StateAfterRead(state, hit, now) ==
    IF state # "idle" /\ now - hit > Hold(state) THEN "idle" ELSE state

\* mutation: a kick replaces a peak of any intensity
DetectKickOverPeak(m, in) ==
    LET pk == IF m \in {"peaks", "both"} /\ in.peak
              THEN [det |-> "peak", det_i |-> in.peak_i]
              ELSE [det |-> "none", det_i |-> 0]
    IN  IF m \in {"drums", "both"}
        THEN IF in.snare THEN [det |-> "snare", det_i |-> S]
             ELSE IF in.kick
                  THEN [det |-> "kick", det_i |-> Max2(pk.det_i, 7000)]
                  ELSE pk
        ELSE pk

\* mutation: the kick is tested before the snare
DetectKickFirst(m, in) ==
    LET pk == IF m \in {"peaks", "both"} /\ in.peak
              THEN [det |-> "peak", det_i |-> in.peak_i]
              ELSE [det |-> "none", det_i |-> 0]
    IN  IF m \in {"drums", "both"}
        THEN IF in.kick /\ pk.det_i < 8000
             THEN [det |-> "kick", det_i |-> Max2(pk.det_i, 7000)]
             ELSE IF in.snare THEN [det |-> "snare", det_i |-> S]
                  ELSE pk
        ELSE pk

\* the onset fusion of one frame: peaks first, then drums
Detect(m, in) ==
    LET pk == IF m \in {"peaks", "both"} /\ in.peak
              THEN [det |-> "peak", det_i |-> in.peak_i]
              ELSE [det |-> "none", det_i |-> 0]
    IN  IF m \in {"drums", "both"}
        THEN IF in.snare THEN [det |-> "snare", det_i |-> S]
             ELSE IF in.kick /\ pk.det # "snare" /\ pk.det_i < 8000
                  THEN [det |-> "kick", det_i |-> Max2(pk.det_i, 7000)]
                  ELSE pk
        ELSE pk

\* the loop-local beat_intensity after a frame
BeatStep(b, d) ==
    IF d.det \in {"kick", "snare"} THEN d.det_i
    ELSE LET x == Mul(b, CHASE_FLASH_DECAY)
         IN  IF x < BEAT_ZERO_BELOW THEN 0 ELSE x

\* does the publication assign _state for this detection
SetsState(state, d) ==
    \/ d.det = "snare"
    \/ d.det = "kick" /\ state # "snare"
    \/ d.det = "peak" /\ state \notin {"snare", "kick"}

\* _intensity after the publication
NewIntensity(state, i, d) ==
    IF d.det = "snare" THEN S
    ELSE IF d.det = "kick" /\ state # "snare" THEN Max2(i, 7000)
    ELSE IF d.det = "peak" /\ state \notin {"snare", "kick"} THEN Max2(i, d.det_i)
    ELSE i

\* _last_hit after the publication: every detection stamps it
NewLastHit(state, hit, d, now) == IF d.det # "none" THEN now ELSE hit

\* mutation: a decayed value below 0.02 is set to 0, as the beat decay does
SilentDecayHardZero(x, rate) == IF Mul(x, rate) < BEAT_ZERO_BELOW THEN 0 ELSE Mul(x, rate)

\* a multiplicative decay of a published value on a silent frame
SilentDecay(x, rate) == Mul(x, rate)

\* one loop iteration on a frame that is not silent.  in: the frame's rms,
\* its raw spectral flux, the three band values after expansion, and the
\* outcomes of the onset detectors
Frame(in) ==
    LET now == clock
        hist == DequeAppend(rms_hist, in.rms, RMS_HIST_MAXLEN)
        rms_max == SeqMax(hist)
        vol_raw == Min2(S, Div(in.rms, 1000))
        vs == vol_smooth + Mul(vol_raw - vol_smooth, 3000)
        vnorm_raw == IF rms_max > RMS_MAX_EPS THEN Min2(S, Div(in.rms, rms_max)) ELSE 0
        vn == vnorm_smooth + Mul(vnorm_raw - vnorm_smooth, 3500)
        energy_raw == Min2(S, Div(in.rms, 700))
        es == energy_smooth + Mul(energy_raw - energy_smooth, 2000)
        fs == flux_smooth + Mul(in.flux - flux_smooth, 2500)
        a == AGC_process(agc_gain, agc_hist, es)
        perc_sm == Smooth(sm_perc, adaptive, Min2(S, Compress(in.perc)), vn)
        bass_sm == Smooth(sm_bass, adaptive, Min2(S, Compress(in.bass)), vn)
        mel_sm == Smooth(sm_mel, adaptive, Min2(S, Compress(in.mel)), vn)
        f1 == GetFloor(floor_cur, vn)
        f2 == GetFloor(f1, vn)
        f3 == GetFloor(f2, vn)
        d == Detect(mode, in)
        b == BeatStep(l_beat, d)
    IN  /\ in.rms >= RMS_SILENCE
        /\ rms_hist' = hist
        /\ vol_smooth' = vs
        /\ vnorm_smooth' = vn
        /\ energy_smooth' = es
        /\ flux_smooth' = fs
        /\ agc_gain' = a.gain
        /\ agc_hist' = a.hist
        /\ sm_perc' = perc_sm
        /\ sm_bass' = bass_sm
        /\ sm_mel' = mel_sm
        /\ floor_cur' = f3
        /\ floor_low' = (floor_low \/ vn < DYNAMIC_FLOOR_THRESH)
        /\ l_beat' = b
        /\ pub_volume' = vs
        /\ vnorm' = vn
        /\ pub_energy' = es
        /\ flux' = fs
        /\ beat' = b
        /\ percussion' = ApplyFloor(perc_sm, f1)
        /\ bass' = ApplyFloor(bass_sm, f2)
        /\ melody' = ApplyFloor(mel_sm, f3)
        /\ st' = IF SetsState(st, d) THEN d.det ELSE st
        /\ intensity' = NewIntensity(st, intensity, d)
        /\ last_hit' = NewLastHit(st, last_hit, d, now)
        /\ set_at' = IF SetsState(st, d) THEN [state |-> d.det, t |-> now] ELSE set_at
        /\ last_frame' = [kind |-> "frame", det |-> d.det, det_i |-> d.det_i, now |-> now,
                           fired |-> [peak |-> in.peak, kick |-> in.kick, snare |-> in.snare,
                                     peak_i |-> in.peak_i]]
        /\ rd' = NoRead
        /\ UNCHANGED <<agc_out, agc_calls, agc_last, agc_switches, compVars, adaptive,
                       sm_call, sm_calls, floor_call, floor_calls, mode, spotify_ok, clock,
                       bandVars>>

\* what both silent branches do to energy, flux, beat and the bands
SilentCommon ==
    /\ pub_energy' = SilentDecay(pub_energy, 9000)
    /\ flux' = SilentDecay(flux, 8500)
    /\ beat' = SilentDecay(beat, 8000)
    /\ bass' = SilentDecay(bass, 8500)
    /\ melody' = SilentDecay(melody, 8500)
    /\ percussion' = SilentDecay(percussion, 8500)
    /\ rd' = NoRead
    /\ UNCHANGED <<st, intensity, last_hit, set_at, agcVars, compVars, smVars, floorVars,
                   mode, spotify_ok, l_beat, vol_smooth, vnorm_smooth, energy_smooth,
                   flux_smooth, clock, bandVars, accVars>>

\* one loop iteration while the Spotify session meter reads below 0.01
SilentSpotify ==
    /\ spotify_ok
    /\ pub_volume' = 0
    /\ vnorm' = 0
    /\ SilentCommon
    /\ last_frame' = [kind |-> "spotify_silent", det |-> "none", det_i |-> 0, now |-> clock,
                      fired |-> NoneFired]
    /\ UNCHANGED rms_hist

\* one loop iteration on a frame whose rms is below 0.003
SilentRms(rms) ==
    /\ rms < RMS_SILENCE
    /\ rms_hist' = DequeAppend(rms_hist, rms, RMS_HIST_MAXLEN)
    /\ pub_volume' = SilentDecay(pub_volume, 8500)
    /\ vnorm' = SilentDecay(vnorm, 8500)
    /\ SilentCommon
    /\ last_frame' = [kind |-> "rms_silent", det |-> "none", det_i |-> 0, now |-> clock,
                      fired |-> NoneFired]

\* time passes
Tick ==
    /\ clock < MaxTime
    /\ clock' = clock + 1
    /\ rd' = NoRead
    /\ UNCHANGED <<agcVars, compVars, smVars, floorVars, snapVars, loopVars,
                   frames, last_frame, set_at, c_reads, lifeVars, bandVars, accVars>>

\* a consumer thread reads the state accessor
ReadState ==
    /\ st' = StateAfterRead(st, last_hit, clock)
    /\ rd' = [ret |-> st', t |-> clock]
    /\ UNCHANGED <<agcVars, compVars, smVars, floorVars, intensity, pub_volume, vnorm, pub_energy,
                   flux, beat, bass, melody, percussion, last_hit, loopVars, clock,
                   frames, last_frame, set_at, c_reads, lifeVars, bandVars, accVars>>

\* the render step of a consumer, BandEffect.update: six accessor reads
RenderFields == <<"bass", "melody", "percussion", "beat_intensity", "volume_normalized", "state">>

\* the consumer thread makes the next accessor read of its render step;
\* every accessor takes the lock for its own read only
ConsumerRead ==
    LET done == IF Len(c_reads) = Len(RenderFields) THEN <<>> ELSE c_reads
        k == Len(done) + 1
        after == StateAfterRead(st, last_hit, clock)
        val == CASE k = 1 -> bass
                 [] k = 2 -> melody
                 [] k = 3 -> percussion
                 [] k = 4 -> beat
                 [] k = 5 -> vnorm
                 [] OTHER -> IF after = "idle" THEN 0 ELSE 1
    IN  /\ c_reads' = Append(done, [field |-> RenderFields[k], value |-> val, version |-> frames])
        /\ st' = IF k = 6 THEN after ELSE st
        /\ rd' = IF k = 6 THEN [ret |-> after, t |-> clock] ELSE NoRead
        /\ UNCHANGED <<agcVars, compVars, smVars, floorVars, intensity, pub_volume, vnorm,
                       pub_energy, flux, beat, bass, melody, percussion, last_hit, loopVars,
                       clock, frames, last_frame, set_at, lifeVars, bandVars, accVars>>

\* ---- hold timing: frames with every detector outcome, time, state reads
HoldInputs ==
    [rms : {1000}, flux : {0}, perc : {5000}, bass : {5000}, mel : {5000},
     peak : BOOLEAN, peak_i : {4000, 10000}, kick : BOOLEAN, snare : BOOLEAN]

HoldInit ==
    /\ InitAGC /\ IdleComp /\ InitSmoothers /\ InitFloor /\ InitObj /\ InLoop
    /\ adaptive
    /\ ~spotify_ok

HoldFrame ==
    /\ frames < MaxFrames
    /\ \E in \in HoldInputs : Frame(in)
    /\ frames' = frames + 1
    /\ UNCHANGED <<c_reads, lifeVars, accVars>>

NextHold == HoldFrame \/ Tick \/ ReadState

\* ---- silence: a few frames that are not silent, then silent frames only
LoudInputs ==
    [rms : {1000}, flux : {0, 10000}, perc : {0, 13000}, bass : {0, 13000}, mel : {0, 13000},
     peak : {FALSE}, peak_i : {4000}, kick : {FALSE}, snare : BOOLEAN]

SilenceInit ==
    /\ InitAGC /\ IdleComp /\ InitSmoothers /\ InitFloor /\ InitObj /\ InLoop
    /\ adaptive
    /\ mode = "drums"

LoudFrame ==
    /\ frames < MaxLoudFrames
    /\ last_frame.kind \in {"none", "frame"}
    /\ \E in \in LoudInputs : in.perc = in.bass /\ in.bass = in.mel /\ Frame(in)
    /\ frames' = frames + 1
    /\ UNCHANGED <<c_reads, lifeVars, accVars>>

SilentFrames ==
    /\ \/ SilentSpotify
       \/ SilentRms(10)
    /\ UNCHANGED <<frames, c_reads, lifeVars>>

NextSilence == LoudFrame \/ SilentFrames

\* ---- rendering: frames published while a consumer reads the snapshot
RenderInputs ==
    [rms : {1000}, flux : {0}, perc : {0, 13000}, bass : {0, 13000}, mel : {0, 13000},
     peak : {FALSE}, peak_i : {4000}, kick : {FALSE}, snare : BOOLEAN]

RenderInit ==
    /\ InitAGC /\ IdleComp /\ InitSmoothers /\ InitFloor /\ InitObj /\ InLoop
    /\ adaptive
    /\ mode = "drums"
    /\ ~spotify_ok

RenderFrame ==
    /\ frames < MaxFrames
    /\ \/ \E in \in RenderInputs : in.perc = in.bass /\ in.bass = in.mel /\ Frame(in)
       \/ SilentRms(10)
    /\ frames' = frames + 1
    /\ UNCHANGED <<c_reads, lifeVars, accVars>>

NextRender == RenderFrame \/ ConsumerRead

\* ---- accessors: every public property, read while the loop runs
\* the properties of lines 436-510 (mid and high are aliases)
Accessors ==
    {"state", "intensity", "volume_normalized", "energy", "spectral_flux", "is_beat",
     "beat_intensity", "bass", "melody", "percussion", "is_running", "agc_gain"}

\* does the getter read inside "with self._lock"
AccessorLocked(f) == f \notin {"is_running", "agc_gain"}

\* does the getter read an object of the pipeline rather than the snapshot
ReadsPipeline(f) == f = "agc_gain"

StateCode(s) == CASE s = "idle" -> 0 [] s = "peak" -> 1 [] s = "kick" -> 2 [] OTHER -> 3

\* what the getter returns (a state as its code, a boolean as 0 or 1)
AccessorValue(f) ==
    CASE f = "state" -> StateCode(StateAfterRead(st, last_hit, clock))
      [] f = "intensity" -> intensity
      [] f = "volume_normalized" -> vnorm
      [] f = "energy" -> pub_energy
      [] f = "spectral_flux" -> flux
      [] f = "is_beat" -> IF st \in {"kick", "snare"} THEN 1 ELSE 0
      [] f = "beat_intensity" -> beat
      [] f = "bass" -> bass
      [] f = "melody" -> melody
      [] f = "percussion" -> percussion
      [] f = "is_running" -> IF running THEN 1 ELSE 0
      [] OTHER -> agc_gain

\* a consumer thread reads one property.  A getter that takes the lock
\* cannot run during the publication, which is one step here; a getter
\* that does not can run at any point of the iteration
AccessorRead(f) ==
    /\ acc' = [field |-> f, value |-> AccessorValue(f), locked |-> AccessorLocked(f),
               during |-> apc]
    /\ st' = IF f = "state" THEN StateAfterRead(st, last_hit, clock) ELSE st
    /\ rd' = IF f = "state" THEN [ret |-> st', t |-> clock] ELSE NoRead
    /\ UNCHANGED <<agcVars, compVars, smVars, floorVars, intensity, pub_volume, vnorm,
                   pub_energy, flux, beat, bass, melody, percussion, last_hit, loopVars,
                   clock, frames, last_frame, set_at, c_reads, lifeVars, bandVars, apc>>

\* _loop, line 698: a frame has been read, lines 703-920 now run on it
\* without the lock, AGC.process (line 789) among them
FrameRead ==
    /\ apc = "read"
    /\ frames < MaxFrames
    /\ apc' = "pipeline"
    /\ UNCHANGED <<agcVars, compVars, smVars, floorVars, snapVars, loopVars, clock, obsVars,
                   lifeVars, bandVars, acc>>

\* _loop, lines 703-943: the iteration completes and publishes
FrameDone ==
    /\ apc = "pipeline"
    /\ \E in \in RenderInputs : in.perc = in.bass /\ in.bass = in.mel /\ Frame(in)
    /\ frames' = frames + 1
    /\ apc' = "read"
    /\ UNCHANGED <<c_reads, lifeVars, acc>>

NextAccess == FrameRead \/ FrameDone \/ \E f \in Accessors : AccessorRead(f)

\* ---- the dynamic floor in the loop: loud and quiet frames, bands at 0 or full
FloorFrameInputs ==
    [rms : {300, 1000, 10000}, flux : {0}, perc : {0, 13000}, bass : {0, 13000}, mel : {0, 13000},
     peak : {FALSE}, peak_i : {4000}, kick : {FALSE}, snare : {FALSE}]

FloorFrame ==
    /\ frames < MaxFrames
    /\ \E in \in FloorFrameInputs : in.perc = in.bass /\ in.bass = in.mel /\ Frame(in)
    /\ frames' = frames + 1
    /\ UNCHANGED <<c_reads, lifeVars, accVars>>

\* a frame whose rms is below 0.003
FloorSilent ==
    /\ frames < MaxFrames
    /\ SilentRms(10)
    /\ frames' = frames + 1
    /\ UNCHANGED <<c_reads, lifeVars>>

NextFloorFrames == FloorFrame \/ FloorSilent

\* ------------------------------------------------------------------------
\* _loop: the weighted instrument masks (lines 545-596)
\* ------------------------------------------------------------------------
\* Weights are kept in units of 0.001, which holds every weight the rules
\* produce and the 0.001 added to the sums exactly.  A frequency is
\* freqs[i] = i * sr / HOP, so f is compared with a limit b as i * sr with
\* b * HOP.  The float32 rounding of the arrays (2^-24 per element) is below
\* the resolution kept for the normalized sums.

\* WIN, HOP = 1024, 512
HOP == 512

\* n_bins = len(np.fft.rfftfreq(HOP, 1 / sr))
N_BINS == HOP \div 2 + 1

\* lo <= f <= hi
InCC(n, lo, hi) == lo * HOP <= n /\ n <= hi * HOP

\* lo <= f < hi
InCO(n, lo, hi) == lo * HOP <= n /\ n < hi * HOP

\* lo < f <= hi
InOC(n, lo, hi) == lo * HOP < n /\ n <= hi * HOP

\* first pass, percussion
PercWeight(n) ==
    (IF InCO(n, 40, 60) THEN 500
     ELSE IF InCC(n, 60, 100) THEN 1000
     ELSE IF InOC(n, 100, 200) THEN 400 ELSE 0)
    + (IF InCC(n, 150, 300) THEN 600 ELSE 0)
    + (IF InCC(n, 2000, 4000) THEN 900 ELSE 0)
    + (IF InCC(n, 5000, 10000) THEN 1000 ELSE 0)
    + (IF InOC(n, 10000, 14000) THEN 400 ELSE 0)

\* first pass, bass
BassWeight(n) ==
    (IF InCO(n, 40, 60) THEN 300 ELSE 0)
    + (IF InCC(n, 60, 100) THEN 500 ELSE 0)
    + (IF InOC(n, 100, 250) THEN 1000 ELSE 0)
    + (IF InOC(n, 250, 500) THEN 500 ELSE 0)
    + (IF InOC(n, 500, 1000) THEN 200 ELSE 0)

\* first pass, melody
MelWeight(n) ==
    (IF InCC(n, 200, 500) THEN 300 ELSE 0)
    + (IF InOC(n, 500, 1000) THEN 600 ELSE 0)
    + (IF InOC(n, 1000, 2000) THEN 900 ELSE 0)
    + (IF InOC(n, 2000, 4000) THEN 1000 ELSE 0)
    + (IF InOC(n, 4000, 6000) THEN 700 ELSE 0)
    + (IF InOC(n, 6000, 8000) THEN 500 ELSE 0)
    + (IF InOC(n, 8000, 10000) THEN 300 ELSE 0)

\* second pass, bass: the overlap with percussion is reduced
BassOverlap(n, w) ==
    LET w1 == IF InCC(n, 60, 100) THEN RoundDiv(w * 3, 10) ELSE w
    IN  IF InCC(n, 150, 300) THEN RoundDiv(w1 * 4, 10) ELSE w1

\* second pass, melody: the overlap with percussion is reduced
MelOverlap(n, w) == IF InCC(n, 2000, 4000) THEN RoundDiv(w * 5, 10) ELSE w

\* mutation: the sum is used as it is
WeightDenominatorNoEpsilon(sum) == sum

\* w_perc_sum = np.sum(w_perc) + 0.001
WeightDenominator(sum) == sum + 1

\* w / d in units of 1e-9, by long division in three steps of three digits
DivNano(w, d) ==
    LET q1 == (w * 1000) \div d
        r1 == (w * 1000) % d
        q2 == (r1 * 1000) \div d
        r2 == (r1 * 1000) % d
        q3 == RoundDiv(r2 * 1000, d)
    IN  q1 * 1000000 + q2 * 1000 + q3

RECURSIVE WeightSum(_, _, _)
\* np.sum(w) over the bins lo..hi, summed by halves
WeightSum(w, lo, hi) ==
    IF lo > hi THEN 0
    ELSE IF lo = hi THEN w[lo]
    ELSE WeightSum(w, lo, (lo + hi) \div 2) + WeightSum(w, (lo + hi) \div 2 + 1, hi)

RECURSIVE NormSum(_, _, _, _)
\* np.sum(w / d) over the bins lo..hi, summed by halves
NormSum(w, d, lo, hi) ==
    IF lo > hi THEN 0
    ELSE IF lo = hi THEN DivNano(w[lo], d)
    ELSE NormSum(w, d, lo, (lo + hi) \div 2) + NormSum(w, d, (lo + hi) \div 2 + 1, hi)

\* the sum of a vector after its normalization
NormalizedSum(w) == NormSum(w, WeightDenominator(WeightSum(w, 1, Len(w))), 1, Len(w))

\* sample rates of the loopback device
SampleRates == {44100, 48000, 96000}

\* _loop, line 520: the rate of the device, the three arrays zeroed
BandsBegin(sr) ==
    /\ bw_pc = "idle"
    /\ bw_pc' = "build"
    /\ bw_sr' = sr
    /\ UNCHANGED <<bw_bin, w_perc, w_bass, w_mel, w_n_sum>>

\* _loop, lines 555-579: the first pass sets the weights of bin i
BandBuild ==
    /\ bw_pc = "build"
    /\ w_perc' = Append(w_perc, PercWeight(bw_bin * bw_sr))
    /\ w_bass' = Append(w_bass, BassWeight(bw_bin * bw_sr))
    /\ w_mel' = Append(w_mel, MelWeight(bw_bin * bw_sr))
    /\ bw_bin' = IF bw_bin + 1 = N_BINS THEN 0 ELSE bw_bin + 1
    /\ bw_pc' = IF bw_bin + 1 = N_BINS THEN "overlap" ELSE "build"
    /\ UNCHANGED <<bw_sr, w_n_sum>>

\* _loop, lines 582-588: the second pass reduces the weights of bin i
BandOverlap ==
    /\ bw_pc = "overlap"
    /\ w_bass' = [w_bass EXCEPT ![bw_bin + 1] = BassOverlap(bw_bin * bw_sr, @)]
    /\ w_mel' = [w_mel EXCEPT ![bw_bin + 1] = MelOverlap(bw_bin * bw_sr, @)]
    /\ bw_bin' = IF bw_bin + 1 = N_BINS THEN 0 ELSE bw_bin + 1
    /\ bw_pc' = IF bw_bin + 1 = N_BINS THEN "normalize" ELSE "overlap"
    /\ UNCHANGED <<bw_sr, w_perc, w_n_sum>>

\* _loop, lines 591-596: each array is divided by its sum plus 0.001
BandNormalize ==
    /\ bw_pc = "normalize"
    /\ bw_pc' = "done"
    /\ w_n_sum' = [perc |-> NormalizedSum(w_perc),
                   bass |-> NormalizedSum(w_bass),
                   mel |-> NormalizedSum(w_mel)]
    /\ UNCHANGED <<bw_sr, bw_bin, w_perc, w_bass, w_mel>>

\* the construction leaves everything else alone
BandsOnly ==
    UNCHANGED <<agcVars, compVars, smVars, floorVars, snapVars, loopVars, clock, obsVars, lifeVars,
                accVars>>

NextBands ==
    \/ \E sr \in SampleRates : BandsBegin(sr) /\ BandsOnly
    \/ BandBuild /\ BandsOnly
    \/ BandOverlap /\ BandsOnly
    \/ BandNormalize /\ BandsOnly

\* ------------------------------------------------------------------------
\* AudioReactiveSpotifyOnly: start(), stop() and the life of the loop thread
\* ------------------------------------------------------------------------

\* threading.Thread.is_alive()
Alive(t) == t # 0 /\ thr[t] \in {"init", "loop", "finally"}

Event(op, t, ret, found, n0) == [op |-> op, thread |-> t, ret |-> ret, found |-> found, n0 |-> n0]

\* start(), line 955: an object that is running returns True at once
StartCall ==
    /\ cpc = "idle"
    /\ Len(thr) < MaxThreads
    /\ IF running
       THEN /\ ev' = Event("start_running", self_thread, TRUE, FALSE, Len(thr))
            /\ cpc' = cpc
       ELSE /\ ev' = Event("start_call", self_thread, FALSE, FALSE, Len(thr))
            /\ cpc' = "start_find"
    /\ UNCHANGED <<running, self_thread, thr, res, tlog>>

\* mutation: the running flag is set before the device is looked for
StartFindSetsRunningFirst(found) ==
    /\ cpc = "start_find"
    /\ running' = TRUE
    /\ IF found
       THEN /\ thr' = Append(thr, "init")
            /\ res' = Append(res, FALSE)
            /\ tlog' = Append(tlog, NoLog)
            /\ self_thread' = Len(thr) + 1
            /\ cpc' = "start_sleep"
            /\ ev' = Event("start_spawn", Len(thr) + 1, FALSE, TRUE, ev.n0)
       ELSE /\ cpc' = "idle"
            /\ ev' = Event("start_return", self_thread, FALSE, FALSE, ev.n0)
            /\ UNCHANGED <<self_thread, thr, res, tlog>>

\* start(), lines 957-962: without a loopback device return False; with one
\* set the running flag, create the thread and start it
StartFind(found) ==
    /\ cpc = "start_find"
    /\ IF found
       THEN /\ running' = TRUE
            /\ thr' = Append(thr, "init")
            /\ res' = Append(res, FALSE)
            /\ tlog' = Append(tlog, NoLog)
            /\ self_thread' = Len(thr) + 1
            /\ cpc' = "start_sleep"
            /\ ev' = Event("start_spawn", Len(thr) + 1, FALSE, TRUE, ev.n0)
       ELSE /\ cpc' = "idle"
            /\ ev' = Event("start_return", self_thread, FALSE, FALSE, ev.n0)
            /\ UNCHANGED <<running, self_thread, thr, res, tlog>>

\* start(), lines 963-964: after the sleep return the running flag
StartReturn ==
    /\ cpc = "start_sleep"
    /\ cpc' = "idle"
    /\ ev' = Event("start_return", self_thread, running, TRUE, ev.n0)
    /\ UNCHANGED <<running, self_thread, thr, res, tlog>>

\* mutation: stop() does nothing when no thread is alive
StopCallOnlyIfAlive ==
    /\ cpc = "idle"
    /\ running' = IF Alive(self_thread) THEN FALSE ELSE running
    /\ cpc' = IF Alive(self_thread) THEN "stop_join" ELSE "idle"
    /\ ev' = Event("stop_call", self_thread, FALSE, FALSE, Len(thr))
    /\ UNCHANGED <<self_thread, thr, res, tlog>>

\* stop(), lines 967-969: clear the flag, then join a thread that is alive
StopCall ==
    /\ cpc = "idle"
    /\ running' = FALSE
    /\ cpc' = IF Alive(self_thread) THEN "stop_join" ELSE "idle"
    /\ ev' = Event("stop_call", self_thread, FALSE, FALSE, Len(thr))
    /\ UNCHANGED <<self_thread, thr, res, tlog>>

\* stop(), line 969: join returns when the thread has ended or after 2 s
StopJoinReturn ==
    /\ cpc = "stop_join"
    /\ cpc' = "idle"
    /\ ev' = Event("stop_return", self_thread, Alive(self_thread), FALSE, Len(thr))
    /\ UNCHANGED <<running, self_thread, thr, res, tlog>>

\* _loop, lines 517-690, completes: session meter, stream and detectors set
\* up, the locals of the loop initialized (lines 663-669); the pipeline
\* objects held by self are used as they are
ThreadInitOk(t) ==
    /\ thr[t] = "init"
    /\ thr' = [thr EXCEPT ![t] = "loop"]
    /\ res' = [res EXCEPT ![t] = TRUE]
    /\ ev' = Event("init_ok", t, FALSE, FALSE, Len(thr))
    /\ rms_hist' = <<>>
    /\ vol_smooth' = 0
    /\ vnorm_smooth' = 0
    /\ energy_smooth' = 0
    /\ flux_smooth' = 0
    /\ l_beat' = 0
    /\ UNCHANGED <<running, self_thread, cpc, tlog, mode, spotify_ok>>

\* _loop, lines 517-690, raises (p.open or aubio.onset): these lines are
\* outside the try, the exception ends the thread
ThreadInitFail(t) ==
    /\ thr[t] = "init"
    /\ thr' = [thr EXCEPT ![t] = "crashed"]
    /\ ev' = Event("init_fail", t, FALSE, FALSE, Len(thr))
    /\ UNCHANGED <<running, self_thread, res, cpc, tlog>>

\* _loop, line 696: the loop condition is false
ThreadLoopExit(t) ==
    /\ thr[t] = "loop"
    /\ ~running
    /\ thr' = [thr EXCEPT ![t] = "finally"]
    /\ ev' = Event("loop_exit", t, FALSE, FALSE, Len(thr))
    /\ tlog' = [tlog EXCEPT ![t].why = "stopped"]
    /\ UNCHANGED <<running, self_thread, res, cpc>>

\* mutation: a failed read is handled by the outer except and ends the loop
ThreadReadFailLeavesLoop(t) ==
    /\ thr[t] = "loop"
    /\ running
    /\ tlog[t].fails < MaxReadFails
    /\ thr' = [thr EXCEPT ![t] = "finally"]
    /\ ev' = Event("read_fail", t, FALSE, FALSE, Len(thr))
    /\ tlog' = [tlog EXCEPT ![t].fails = @ + 1]
    /\ UNCHANGED <<running, self_thread, res, cpc>>

\* _loop, lines 697-701: stream.read raises, sleep and go round again
ThreadReadFail(t) ==
    /\ thr[t] = "loop"
    /\ running
    /\ tlog[t].fails < MaxReadFails
    /\ ev' = Event("read_fail", t, FALSE, FALSE, Len(thr))
    /\ tlog' = [tlog EXCEPT ![t].fails = @ + 1]
    /\ UNCHANGED <<running, self_thread, thr, res, cpc>>

\* _loop, lines 945-946: processing a frame raises, the loop is left
ThreadFrameError(t) ==
    /\ thr[t] = "loop"
    /\ running
    /\ thr' = [thr EXCEPT ![t] = "finally"]
    /\ ev' = Event("frame_error", t, FALSE, FALSE, Len(thr))
    /\ tlog' = [tlog EXCEPT ![t].why = "error"]
    /\ UNCHANGED <<running, self_thread, res, cpc>>

\* mutation: the finally clause releases the handles but leaves the flag
ThreadFinallyKeepsFlag(t) ==
    /\ thr[t] = "finally"
    /\ thr' = [thr EXCEPT ![t] = "dead"]
    /\ res' = [res EXCEPT ![t] = FALSE]
    /\ ev' = Event("finally", t, FALSE, FALSE, Len(thr))
    /\ UNCHANGED <<running, self_thread, cpc, tlog>>

\* _loop, lines 947-952: release the stream and the session, clear the flag
ThreadFinally(t) ==
    /\ thr[t] = "finally"
    /\ thr' = [thr EXCEPT ![t] = "dead"]
    /\ res' = [res EXCEPT ![t] = FALSE]
    /\ running' = FALSE
    /\ ev' = Event("finally", t, FALSE, FALSE, Len(thr))
    /\ UNCHANGED <<self_thread, cpc, tlog>>

LifeInputs ==
    [rms : {1000}, flux : {0}, perc : {13000}, bass : {13000}, mel : {13000},
     peak : {TRUE}, peak_i : {10000}, kick : {FALSE}, snare : {FALSE}]

\* _loop, lines 698-943: a frame is read and processed
ThreadFrame(t) ==
    /\ thr[t] = "loop"
    /\ running
    /\ frames < MaxFrames
    /\ \E in \in LifeInputs : Frame(in)
    /\ frames' = frames + 1
    /\ ev' = Event("frame", t, FALSE, FALSE, Len(thr))
    /\ UNCHANGED <<running, self_thread, thr, res, cpc, c_reads, tlog, accVars>>

\* the steps that leave the pipeline objects, the snapshot and the clock alone
PipelineOnly ==
    UNCHANGED <<agcVars, compVars, smVars, floorVars, snapVars, clock, obsVars, bandVars, accVars>>

\* the steps that leave the locals of the loop alone as well
LifeOnly == PipelineOnly /\ UNCHANGED loopVars

NextLife ==
    \/ StartCall /\ LifeOnly
    \/ \E found \in BOOLEAN : StartFind(found) /\ LifeOnly
    \/ StartReturn /\ LifeOnly
    \/ StopCall /\ LifeOnly
    \/ StopJoinReturn /\ LifeOnly
    \/ \E t \in DOMAIN thr :
         \/ ThreadInitOk(t) /\ PipelineOnly
         \/ ThreadInitFail(t) /\ LifeOnly
         \/ ThreadLoopExit(t) /\ LifeOnly
         \/ ThreadReadFail(t) /\ LifeOnly
         \/ ThreadFrameError(t) /\ LifeOnly
         \/ ThreadFinally(t) /\ LifeOnly
         \/ ThreadFrame(t)

\* ------------------------------------------------------------------------
\* Specifications
\* ------------------------------------------------------------------------
\* the pipeline objects as constructed, nothing called yet
ObjInit == InitAGC /\ IdleComp /\ InitSmoothers /\ InitFloor /\ IdleObj

SpecAGC == ObjInit /\ [][NextAGC]_vars

\* the pipeline objects as constructed, the two compressor inputs drawn
CompInit == InitAGC /\ InitComp /\ InitSmoothers /\ InitFloor /\ IdleObj

SpecComp == CompInit /\ [][NextComp]_vars

SpecAgcConst == ObjInit /\ [][NextAgcConst]_vars

SpecSmooth == ObjInit /\ [][NextSmooth]_vars

SpecFloor == ObjInit /\ [][NextFloor]_vars

SpecHold == HoldInit /\ [][NextHold]_vars

\* the loop keeps running: a silent frame is processed whenever one is read
SpecSilence == SilenceInit /\ [][NextSilence]_vars /\ WF_vars(SilentFrames)

SpecBands == ObjInit /\ [][NextBands]_vars

SpecRender == RenderInit /\ [][NextRender]_vars

SpecAccess == RenderInit /\ [][NextAccess]_vars

SpecFloorFrames == RenderInit /\ [][NextFloorFrames]_vars

SpecLife == ObjInit /\ [][NextLife]_vars

\* ------------------------------------------------------------------------
\* Claims
\* ------------------------------------------------------------------------

\* C1: after every AGC.process call with non-negative energy the gain lies
\* within [min_gain, max_gain].
C1_AgcGainBounded == AGC_MIN_GAIN <= agc_gain /\ agc_gain <= AGC_MAX_GAIN

\* C1 witness: past the warm-up the gain has moved off 1.0 and the history
\* window has evicted.
C1_Witness == agc_calls > AGC_HIST_MAXLEN /\ agc_gain < S /\ agc_last = 10000

\* C2 as stated: with the compressor enabled, an input with
\* 0 < value < threshold - knee is returned unchanged.
C2_BelowKneeUnchanged ==
    (comp_ra # -1 /\ 0 < comp_a /\ comp_a < COMPRESSOR_THRESHOLD - COMPRESSOR_KNEE)
        => comp_ra = comp_a

\* C2 amended: an input with 0 < value < threshold - knee is not compressed
\* but the makeup gain is still applied: the result is value * makeup.
C2_BelowKneeMakeup ==
    (comp_ra # -1 /\ 0 < comp_a /\ comp_a < COMPRESSOR_THRESHOLD - COMPRESSOR_KNEE)
        => comp_ra = Mul(comp_a, COMPRESSOR_MAKEUP)

\* C2 witness: a below-knee input has been processed and came back larger.
C2_Witness == comp_a = 500 /\ comp_ra = 700

\* C3: for inputs a <= b the compressor output is non-decreasing,
\* process(a) <= process(b), across all three regions.
C3_Monotone == (comp_ra # -1 /\ comp_a <= comp_b) => comp_ra <= comp_rb

\* C4 as stated: whatever was called before, apply(value, volume) with
\* volume >= thresh returns value.
C4_NoOpAtHighVolume ==
    (floor_call.op = "apply" /\ floor_call.volume >= DYNAMIC_FLOOR_THRESH)
        => floor_call.ret = floor_call.value

\* C4 amended: apply(value, volume) with volume >= thresh returns value when
\* value is not below the smoothed floor after the call (0.9 of the floor
\* before it), which is always so when no earlier call had volume < thresh;
\* below that floor it returns the blend floor * 0.7 + value * 0.3.
C4_NoOpAboveSmoothedFloor ==
    (floor_call.op = "apply" /\ floor_call.volume >= DYNAMIC_FLOOR_THRESH)
        => /\ floor_cur = floor_call.before + Mul(0 - floor_call.before, FLOOR_RATE)
           /\ (~floor_low => floor_cur = 0)
           /\ floor_call.value >= floor_cur => floor_call.ret = floor_call.value
           /\ floor_call.value < floor_cur =>
                  floor_call.ret = Mul(floor_cur, FLOOR_BLEND) + Mul(floor_call.value, S - FLOOR_BLEND)

\* C4 witness: a high-volume apply after a low-volume call lifted its value.
C4_Witness ==
    /\ floor_call.op = "apply"
    /\ floor_call.volume >= DYNAMIC_FLOOR_THRESH
    /\ floor_low
    /\ floor_call.ret > floor_call.value

\* C5: the value returned and stored by update(target, volume), volume >= 0,
\* lies between the value stored before the call and target, inclusive.
C5_SmootherBetween ==
    sm_call.ret # -1 =>
        /\ sm_perc = sm_call.ret
        /\ Min2(sm_call.prev, sm_call.target) <= sm_call.ret
        /\ sm_call.ret <= Max2(sm_call.prev, sm_call.target)

\* C5 witness: a decaying update at low volume in adaptive mode moved the
\* value strictly between its previous value and the target.
C5_Witness ==
    /\ adaptive
    /\ sm_call.ret # -1
    /\ sm_call.volume < SMOOTHING_LOW_VOL_THRESH
    /\ sm_call.target < sm_call.ret
    /\ sm_call.ret < sm_call.prev

\* C6: a read of the state accessor made after the loop set the state to
\* kick, snare or peak at time t returns that state up to t + hold (the
\* peak hold for a peak) and "idle" after it.
C6_HoldExact ==
    (rd.ret # "none" /\ set_at.state # "idle")
        => rd.ret = IF rd.t <= set_at.t + Hold(set_at.state) THEN set_at.state ELSE "idle"

\* C7 as stated: once only silent frames are fed, bass, melody, percussion
\* and beat_intensity all become exactly 0.
C7_ReachZero == <>[](bass = 0 /\ melody = 0 /\ percussion = 0 /\ beat = 0)

\* C7 amended: on every silent frame bass, melody, percussion and
\* beat_intensity do not increase, and a value that is positive stays
\* positive: the silent branches only multiply and never set 0.
C7_SilentDecay ==
    [][last_frame'.kind \in {"spotify_silent", "rms_silent"} =>
         /\ bass' <= bass /\ (bass > 0 => bass' > 0)
         /\ melody' <= melody /\ (melody > 0 => melody' > 0)
         /\ percussion' <= percussion /\ (percussion > 0 => percussion' > 0)
         /\ beat' <= beat /\ (beat > 0 => beat' > 0)]_vars

\* C7 witness: after a run of silent frames all four values are positive
\* but below the 0.02 threshold of the beat decay.
C7_Witness ==
    /\ last_frame.kind \in {"spotify_silent", "rms_silent"}
    /\ 0 < bass /\ bass < 10
    /\ 0 < melody /\ melody < 10
    /\ 0 < percussion /\ percussion < 10
    /\ 0 < beat /\ beat < 10

\* C8: the six values read in one render step were all read from the
\* snapshot as one frame published it (no publication between the reads).
C8_RenderConsistent ==
    Len(c_reads) = Len(RenderFields) =>
        \A i, j \in 1..Len(c_reads) : c_reads[i].version = c_reads[j].version

\* C9: a start() that finds no loopback device returns False, creates no
\* thread and leaves the running flag false.
C9_NoDeviceNoThread ==
    (ev.op = "start_return" /\ ~ev.found)
        => /\ ev.ret = FALSE
           /\ ~running
           /\ Len(thr) = ev.n0

\* C9 witness: after an earlier session was started and stopped, a start()
\* found no device and returned False.
C9_Witness ==
    /\ ev.op = "start_return"
    /\ ~ev.found
    /\ ~ev.ret
    /\ Len(thr) = 1
    /\ thr[1] = "dead"

\* C10: when the thread created by start() failed to initialize, start()
\* returns False and the running flag is false afterwards.
C10_InitFailureReported ==
    (ev.op = "start_return" /\ ev.found /\ thr[ev.thread] = "crashed")
        => (ev.ret = FALSE /\ ~running)

\* C11: stop() may be called in every state of the object (never started,
\* running, already stopped, thread crashed); when it returns the running
\* flag is false, and a stop() called right after a stop() has returned
\* changes no field of the object, nor does the return from its join.
C11_StopIdempotent ==
    [][/\ (ev'.op = "stop_return" \/ (ev'.op = "stop_call" /\ cpc' = "idle")) => ~running'
       /\ ( /\ ev.op = "stop_return" \/ (ev.op = "stop_call" /\ cpc = "idle")
            /\ ev'.op \in {"stop_call", "stop_return"} )
          => UNCHANGED <<running, self_thread, thr, res, tlog, snapVars, loopVars,
                         agcVars, smVars, floorVars>>]_vars

\* C11 witness: the thread left its loop because of a stop() and has ended;
\* a further stop(), finding no thread alive, has returned.
C11_Witness ==
    /\ ev.op = "stop_call"
    /\ cpc = "idle"
    /\ ~running
    /\ Len(thr) = 1
    /\ thr[1] = "dead"
    /\ tlog[1].why = "stopped"

\* C12: a thread whose frame processing raised has left the frame loop; when
\* it has ended it holds neither the audio stream nor the session handle,
\* and at the moment it ends the running flag is false.
C12_ErrorExitReleases ==
    /\ \A t \in DOMAIN thr :
         tlog[t].why = "error" =>
             /\ thr[t] \in {"finally", "dead"}
             /\ thr[t] = "dead" => ~res[t]
    /\ (ev.op = "finally" /\ tlog[ev.thread].why = "error")
         => (thr[ev.thread] = "dead" /\ ~running)

\* C12 witness: a thread that had processed frames raised while the flag
\* was set, and has just ended.
C12_Witness ==
    /\ ev.op = "finally"
    /\ tlog[ev.thread].why = "error"
    /\ thr[ev.thread] = "dead"
    /\ frames >= 1
    /\ cpc = "idle"

\* C13: a failed read leaves its thread in the frame loop with the running
\* flag set, and changes neither the snapshot nor the state of the pipeline
\* nor the handles the thread holds: the next read is processed as a frame.
C13_ReadFailHarmless ==
    [][(ev'.op = "read_fail" /\ tlog' # tlog) =>
         /\ running /\ running'
         /\ thr' = thr
         /\ thr'[ev'.thread] = "loop"
         /\ UNCHANGED <<res, self_thread, snapVars, loopVars, agcVars, smVars, floorVars>>]_vars

\* C13 witness: after two failed reads the thread has processed its first
\* frame and published its detection.
C13_Witness ==
    /\ ev.op = "frame"
    /\ tlog[ev.thread].fails = 2
    /\ frames = 1
    /\ last_frame.kind = "frame"
    /\ st = "peak"
    /\ running

\* C14: in drums or both mode, a frame on which the snare detector fired
\* publishes state "snare" with intensity 1.0, whatever the state was before
\* and whatever the kick and peak detectors did on that frame.
C14_SnareWins ==
    [][(frames' # frames /\ last_frame'.kind = "frame" /\ mode \in {"drums", "both"}
        /\ last_frame'.fired.snare)
         => (st' = "snare" /\ intensity' = S)]_vars

\* C14 witness: in both mode, after an earlier frame, a frame on which snare,
\* kick and peak all fired has published "snare".
C14_Witness ==
    /\ mode = "both"
    /\ last_frame.kind = "frame"
    /\ last_frame.fired.peak /\ last_frame.fired.kick /\ last_frame.fired.snare
    /\ frames >= 2
    /\ st = "snare"
    /\ intensity = S
    /\ set_at = [state |-> "snare", t |-> last_frame.now]

\* C15: a processed frame on which an onset was detected (kick, snare or
\* peak) publishes beat_intensity equal to the intensity of that onset; every
\* other processed frame publishes the previous value times the decay
\* constant, or exactly 0 when that product is below 0.02.
C15_BeatFollowsOnset ==
    [][(frames' # frames /\ last_frame'.kind = "frame") =>
         beat' = IF last_frame'.det # "none"
                 THEN last_frame'.det_i
                 ELSE IF Mul(beat, CHASE_FLASH_DECAY) < BEAT_ZERO_BELOW
                      THEN 0
                      ELSE Mul(beat, CHASE_FLASH_DECAY)]_vars

\* C16: when start() creates the thread of a new session after a stop() that
\* ended the previous one, the three smoothers, the AGC gain and energy
\* history and the dynamic floor are as __init__ left them.
C16_RestartResets ==
    (ev.op = "start_spawn" /\ ev.thread = 2 /\ thr[1] = "dead" /\ tlog[1].why = "stopped")
        => /\ sm_perc = 0 /\ sm_bass = 0 /\ sm_mel = 0
           /\ agc_gain = S /\ agc_hist = <<>>
           /\ floor_cur = 0

\* C17 as stated: with the same energy E > 0.001 fed on every call, after
\* 200 calls the returned E * gain is within 0.05 of the target.
C17_ConvergesForAll ==
    (agc_calls >= 200 /\ agc_last > AGC_EPS)
        => (AGC_TARGET - 500 <= agc_out /\ agc_out <= AGC_TARGET + 500)

\* C17 amended: after 200 calls E * gain is within 0.05 of the target for
\* 0.10 <= E <= 0.49; for E <= 0.09 it is below target - 0.05 with the gain
\* under max_gain, for E >= 0.50 it is above target + 0.05 with the gain
\* above min_gain: the gain is kept within [min_gain, max_gain].
C17_ConvergesInRange ==
    agc_calls >= 200 =>
        /\ agc_out = Mul(agc_last, agc_gain)
        /\ (1000 <= agc_last /\ agc_last <= 4900)
             => (AGC_TARGET - 500 <= agc_out /\ agc_out <= AGC_TARGET + 500)
        /\ agc_last <= 900 => (agc_out < AGC_TARGET - 500 /\ agc_gain < AGC_MAX_GAIN)
        /\ agc_last >= 5000 => (agc_out > AGC_TARGET + 500 /\ agc_gain > AGC_MIN_GAIN)

\* C17 witness: 200 calls with E = 0.49 brought the gain down to just above
\* min_gain and E * gain within 0.05 of the target.
C17_Witness ==
    /\ agc_calls = 200
    /\ agc_last = 4900
    /\ agc_gain < 8100
    /\ agc_out > AGC_TARGET
    /\ agc_out <= AGC_TARGET + 500

\* C18 as stated: each of the three normalized weight vectors sums to 1.0
\* within 1e-6.
C18_SumsToOne ==
    bw_pc = "done" =>
        /\ 1000000000 - 1000 <= w_n_sum.perc /\ w_n_sum.perc <= 1000000000 + 1000
        /\ 1000000000 - 1000 <= w_n_sum.bass /\ w_n_sum.bass <= 1000000000 + 1000
        /\ 1000000000 - 1000 <= w_n_sum.mel /\ w_n_sum.mel <= 1000000000 + 1000

\* C18 amended: each normalized vector sums to s / (s + 0.001), s being the
\* sum before the normalization: at 44.1, 48 and 96 kHz that is below 1.0 by
\* more than 5e-6 and by less than 1e-3.
C18_SumsBelowOne ==
    bw_pc = "done" =>
        \A b \in {"perc", "bass", "mel"} :
            LET s == WeightSum(CASE b = "perc" -> w_perc [] b = "bass" -> w_bass [] OTHER -> w_mel,
                               1, N_BINS)
            IN  /\ s > 0
                /\ w_n_sum[b] - DivNano(s, s + 1) <= N_BINS
                /\ DivNano(s, s + 1) - w_n_sum[b] <= N_BINS
                /\ 1000000000 - 1000000 < w_n_sum[b]
                /\ w_n_sum[b] < 1000000000 - 5000

\* C18 witness: at 48 kHz the bass vector, whose un-normalized sum is 2.75,
\* sums to 0.99964.
C18_Witness ==
    /\ bw_pc = "done"
    /\ bw_sr = 48000
    /\ WeightSum(w_bass, 1, N_BINS) = 2750
    /\ w_n_sum.bass > 999636000
    /\ w_n_sum.bass < 999637000

\* C19: at value = threshold - knee the formula below the knee and the knee
\* formula give the same output, and at value = threshold + knee the knee
\* formula and the formula above the knee give the same output; process()
\* returns that output.
C19_KneeContinuous ==
    comp_ra # -1 =>
        /\ comp_a = COMPRESSOR_THRESHOLD - COMPRESSOR_KNEE =>
               /\ MakeupOut(RegionBelow(comp_a)) = MakeupOut(RegionKnee(comp_a))
               /\ comp_ra = MakeupOut(RegionKnee(comp_a))
        /\ comp_a = COMPRESSOR_THRESHOLD + COMPRESSOR_KNEE =>
               /\ MakeupOut(RegionKnee(comp_a)) = MakeupOut(RegionAbove(comp_a))
               /\ comp_ra = MakeupOut(RegionKnee(comp_a))

\* C20: a read of a public accessor by a consumer thread changes no field of
\* the snapshot and nothing of the detector and pipeline state.
C20_AccessorsReadOnly ==
    [][rd'.ret # "none" => UNCHANGED <<snapVars, loopVars, agcVars, smVars, floorVars>>]_vars

\* C21: every accessor read by a consumer thread is made under the snapshot
\* lock, and no object of the pipeline is read while the audio thread is in
\* the part of its iteration that writes it.
C21_ReadsUnderLock ==
    acc.field # "none" =>
        /\ acc.locked
        /\ ReadsPipeline(acc.field) => acc.during # "pipeline"

\* C22 as stated: in drums or both mode, on a frame where the kick detector
\* fired and the snare detector did not, a state other than "snare" becomes
\* "kick" with intensity max(previous, 0.7), and "snare" stays "snare".
C22_KickSetsState ==
    [][(frames' # frames /\ last_frame'.kind = "frame" /\ mode \in {"drums", "both"}
        /\ last_frame'.fired.kick /\ ~last_frame'.fired.snare)
         => IF st = "snare"
            THEN st' = "snare"
            ELSE st' = "kick" /\ intensity' = Max2(intensity, 7000)]_vars

\* C22 amended: on such a frame the stored state "snare" stays, with its
\* intensity; otherwise, unless a peak of intensity >= 0.8 was detected on the
\* same frame, the state becomes "kick" with intensity max(previous, 0.7).
\* With such a peak (both mode) the frame counts as a peak: the state "kick"
\* stays with its intensity, any other state becomes "peak" with intensity
\* max(previous, peak intensity).
C22_KickUnlessStrongPeak ==
    [][(frames' # frames /\ last_frame'.kind = "frame" /\ mode \in {"drums", "both"}
        /\ last_frame'.fired.kick /\ ~last_frame'.fired.snare)
         => IF st = "snare"
            THEN st' = "snare" /\ intensity' = intensity
            ELSE IF mode = "both" /\ last_frame'.fired.peak /\ last_frame'.fired.peak_i >= 8000
                 THEN IF st = "kick"
                      THEN st' = "kick" /\ intensity' = intensity
                      ELSE st' = "peak"
                           /\ intensity' = Max2(intensity, last_frame'.fired.peak_i)
                 ELSE st' = "kick" /\ intensity' = Max2(intensity, 7000)]_vars

\* C22 witness: in both mode a frame on which the kick fired together with
\* a peak of intensity 1.0 was published as a peak.
C22_Witness ==
    /\ mode = "both"
    /\ last_frame.kind = "frame"
    /\ last_frame.fired.kick /\ ~last_frame.fired.snare
    /\ last_frame.fired.peak /\ last_frame.fired.peak_i = 10000
    /\ st = "peak"
    /\ intensity = 10000
    /\ set_at = [state |-> "peak", t |-> last_frame.now]

\* C23: in peaks or both mode, a frame on which only a peak was detected,
\* while the state is neither "kick" nor "snare", publishes the state "peak"
\* with the intensity of that peak (its relative energy within [0.4, 1.0]),
\* whatever the intensity was before.
C23_PeakIntensityOwn ==
    [][(frames' # frames /\ last_frame'.kind = "frame" /\ mode \in {"peaks", "both"}
        /\ last_frame'.fired.peak /\ ~last_frame'.fired.kick /\ ~last_frame'.fired.snare
        /\ st \notin {"kick", "snare"})
         => (st' = "peak" /\ intensity' = last_frame'.fired.peak_i)]_vars

\* C24: a frame that is not silent advances the smoothed floor by one step,
\* current += (target - current) * 0.1, and its three bands are floored
\* against that one value.
C24_OneFloorStep ==
    [][(frames' # frames /\ last_frame'.kind = "frame") =>
         /\ floor_cur' = GetFloor(floor_cur, vnorm')
         /\ percussion' = ApplyFloor(sm_perc', floor_cur')
         /\ bass' = ApplyFloor(sm_bass', floor_cur')
         /\ melody' = ApplyFloor(sm_mel', floor_cur')]_vars

\* C25: whatever start() and stop() calls are made, a join that timed out
\* included, at most one thread is in the frame loop at any time.
C25_OneLoopThread == Cardinality({t \in DOMAIN thr : thr[t] = "loop"}) <= 1

\* C26: while no start() or stop() call is under way and the running flag
\* is set, the flag is cleared only by a stop() call or by the end of the
\* thread of the current session; the end of a thread of an earlier session
\* does not clear it.
C26_FlagOwnedBySession ==
    [][(cpc = "idle" /\ running /\ ~running') =>
         \/ ev'.op = "stop_call"
         \/ ev'.op = "finally" /\ ev'.thread = self_thread]_vars

\* C27: a frame whose detection does not assign the state (a kick while the
\* state is "snare", a peak while it is "kick" or "snare") leaves the
\* last-hit time as it was.
C27_NoHoldExtension ==
    [][(frames' # frames /\ last_frame'.kind = "frame" /\ last_frame'.det # "none"
        /\ ~SetsState(st, [det |-> last_frame'.det, det_i |-> last_frame'.det_i]))
         => last_hit' = last_hit]_vars

\* C28: a frame that detects a kick more than hold_time after the loop last
\* set the state, to "snare", publishes the state "kick", whether or not a
\* consumer has read the state accessor in between.
C28_ExpiryWithoutReaders ==
    [][(frames' # frames /\ last_frame'.kind = "frame" /\ last_frame'.det = "kick"
        /\ set_at.state = "snare" /\ clock - set_at.t > HIT_HOLD_TIME)
         => st' = "kick"]_vars

\* C29: from one publication to the next, the decays of silent frames
\* included, beat_intensity rises only on a frame that detected a kick or a
\* snare.
C29_BeatRisesOnHitOnly ==
    [][beat' > beat => (last_frame'.kind = "frame" /\ last_frame'.det \in {"kick", "snare"})]_vars

\* C30: after any sequence of frames, silent or not, the published bass,
\* melody and percussion lie in [0, 1] and the current dynamic floor lies
\* in [0, max_floor].
C30_BandsAndFloorInRange ==
    /\ 0 <= bass /\ bass <= S
    /\ 0 <= melody /\ melody <= S
    /\ 0 <= percussion /\ percussion <= S
    /\ 0 <= floor_cur /\ floor_cur <= DYNAMIC_FLOOR_MAX

\* C30 witness: three frames, the last one processed, after which the floor
\* has risen and the three bands are well above it.
C30_Witness ==
    /\ frames = 3
    /\ last_frame.kind = "frame"
    /\ floor_cur > 0
    /\ percussion > 3000
    /\ bass > 3000
    /\ melody > 3000

====
